---- MODULE Spec2Model ----
(***************************************************************************)
(* Model of src/app.py, the "AI Lecture Notes Generator" page script.      *)
(*                                                                         *)
(* The page framework executes the script top to bottom once per page      *)
(* interaction (upload, theme change, download press).  One execution is   *)
(* a "run"; pc is the position of the current run in the script.  Text is  *)
(* a sequence of one-character strings.  An optional value is <<>> (None)  *)
(* or <<v>>.                                                               *)
(***************************************************************************)
EXTENDS Integers, Sequences, FiniteSets, TLC

VARIABLES
    uploaded_file,   \* value of the file_uploader widget: None or <<ext>>
    theme,           \* value of the sidebar radio
    pressed,         \* the current run was started by the download button
    pc,              \* position of the current run in the script
    transcript,      \* script variable, None until line 135 ran
    summary_text,    \* script variable, None until line 143 ran
    questions_text,  \* script variable, None until line 147 ran
    tmp_path,        \* script variable, None until line 133 ran
    tmp_files,       \* names of the files in the temp directory
    prompt,          \* prompt_text of the chunked_generate call in progress
    chunks,          \* chunks of that call not yet sent
    results,         \* results list of that call
    log,             \* the generate_content calls of that call: <<prompt, outcome>>
    ui,              \* what the page shows for the current run
    pdf,             \* the built document, None until doc.build returned
    ran,             \* how often each stage executed in the current run
    total,           \* the same, summed over the runs of the current upload
    runs             \* number of script runs so far

vars == <<uploaded_file, theme, pressed, pc, transcript, summary_text,
          questions_text, tmp_path, tmp_files, prompt, chunks, results, log,
          ui, pdf, ran, total, runs>>

(***************************************************************************)
(* Bounds of the model.                                                    *)
(***************************************************************************)
\* longest transcript the speech model returns
MaxLen == 3
\* number of script runs explored
MaxRuns == 2
\* chunk_size of chunked_generate (1500 in the code), scaled to the texts
chunk_size == 2
\* column width of the PDF body text (90 in the code), scaled to the texts
LineWidth == 3

(***************************************************************************)
(* Text helpers: str.strip, str.split, str.join.                           *)
(***************************************************************************)
None == <<>>
Some(v) == <<v>>

IsSpace(c) == c \in {" ", "\n"}

IsBlank(s) == \A i \in 1..Len(s) : IsSpace(s[i])

RECURSIVE LStrip(_)
LStrip(s) == IF s # <<>> /\ IsSpace(Head(s)) THEN LStrip(Tail(s)) ELSE s

RECURSIVE RStrip(_)
RStrip(s) ==
    IF s # <<>> /\ IsSpace(s[Len(s)]) THEN RStrip(SubSeq(s, 1, Len(s) - 1)) ELSE s

Strip(s) == RStrip(LStrip(s))

RECURSIVE Concat(_)
Concat(ss) == IF ss = <<>> THEN <<>> ELSE Head(ss) \o Concat(Tail(ss))

RECURSIVE JoinWith(_, _)
JoinWith(sep, ss) ==
    IF ss = <<>> THEN <<>>
    ELSE IF Len(ss) = 1 THEN Head(ss)
    ELSE Head(ss) \o sep \o JoinWith(sep, Tail(ss))

RECURSIVE SplitOn(_, _, _)
\* s.split(sep) for a one-character sep; cur is the part being collected
SplitOn(sep, s, cur) ==
    IF s = <<>> THEN <<cur>>
    ELSE IF Head(s) = sep THEN <<cur>> \o SplitOn(sep, Tail(s), <<>>)
    ELSE SplitOn(sep, Tail(s), Append(cur, Head(s)))

(***************************************************************************)
(* textwrap.wrap(text, width) with the default TextWrapper options, for    *)
(* texts without tabs and hyphens.                                         *)
(***************************************************************************)
\* _munge_whitespace: every whitespace character becomes a space
Munge(s) == [i \in 1..Len(s) |-> IF IsSpace(s[i]) THEN " " ELSE s[i]]

RECURSIVE SplitChunks(_, _)
\* _split: maximal runs of whitespace and of non-whitespace
SplitChunks(s, cur) ==
    IF s = <<>> THEN (IF cur = <<>> THEN <<>> ELSE <<cur>>)
    ELSE IF cur = <<>> \/ IsSpace(Head(s)) = IsSpace(cur[1])
         THEN SplitChunks(Tail(s), Append(cur, Head(s)))
         ELSE <<cur>> \o SplitChunks(Tail(s), <<Head(s)>>)

RECURSIVE TakeChunks(_, _, _, _)
\* the inner loop of _wrap_chunks: chunks that fit on the current line
TakeChunks(cs, cur_line, cur_len, width) ==
    IF cs # <<>> /\ cur_len + Len(Head(cs)) <= width
    THEN TakeChunks(Tail(cs), Append(cur_line, Head(cs)),
                    cur_len + Len(Head(cs)), width)
    ELSE [cur_line |-> cur_line, cur_len |-> cur_len, rest |-> cs]

\* _handle_long_word with break_long_words: cut the chunk at the space left
HandleLongWord(t, width) ==
    LET space_left == width - t.cur_len
        chunk == Head(t.rest)
    IN  [cur_line |-> Append(t.cur_line, SubSeq(chunk, 1, space_left)),
         cur_len |-> t.cur_len + space_left,
         rest |-> <<SubSeq(chunk, space_left + 1, Len(chunk))>> \o Tail(t.rest)]

RECURSIVE WrapChunks(_, _, _)
\* _wrap_chunks with drop_whitespace
WrapChunks(cs, lines, width) ==
    IF cs = <<>> THEN lines
    ELSE LET c1 == IF IsBlank(Head(cs)) /\ lines # <<>> THEN Tail(cs) ELSE cs
             t1 == TakeChunks(c1, <<>>, 0, width)
             t2 == IF t1.rest # <<>> /\ Len(Head(t1.rest)) > width
                   THEN HandleLongWord(t1, width) ELSE t1
             n  == Len(t2.cur_line)
             cur_line == IF n > 0 /\ IsBlank(t2.cur_line[n])
                         THEN SubSeq(t2.cur_line, 1, n - 1) ELSE t2.cur_line
         IN  WrapChunks(t2.rest,
                        IF cur_line # <<>> THEN Append(lines, Concat(cur_line))
                                           ELSE lines,
                        width)

Wrap(text, width) == WrapChunks(SplitChunks(Munge(text), <<>>), <<>>, width)

(***************************************************************************)
(* The script's constants and pure helpers.                                *)
(***************************************************************************)
\* variant: m4a is missing from the accepted types
uploader_type_without_m4a == {"mp3", "wav"}

\* the type argument of st.file_uploader
uploader_type == {"mp3", "wav", "m4a"}

\* extensions of the files a user may try to upload
Extensions == {"mp3", "wav", "m4a", "txt"}

\* texts the speech model may return as result["text"]
TAlphabet == {"a", " "}
Transcripts == UNION {[1..n -> TAlphabet] : n \in 0..MaxLen}

\* texts the generative model may return as response.text
Responses == {<<"x">>, <<"\n">>}

\* messages of the exceptions the external calls may raise
ApiExceptions == {<<"e">>}
TranscriptionExceptions == {<<"e">>, <<"k">>}

\* the instruction templates of generate_summary and generate_questions,
\* each one word followed by the two newlines of the f-string
SummaryInstruction == <<"S", "\n", "\n">>
QuestionsInstruction == <<"Q", "\n", "\n">>

SummaryPrompt(t) == SummaryInstruction \o t
QuestionsPrompt(t) == QuestionsInstruction \o t

\* the error markers of the three except clauses
SummaryErrorMarker == <<"!", "S", ":", " ">>
QuestionsErrorMarker == <<"!", "Q", ":", " ">>
TranscriptionErrorMarker == <<"!", "T", ":", " ">>

\* variant: the bare exception message is returned
SummaryErrorTextBare(e) == e

SummaryErrorText(e) == SummaryErrorMarker \o e
QuestionsErrorText(e) == QuestionsErrorMarker \o e
TranscriptionErrorText(e) == TranscriptionErrorMarker \o e

\* variant: every call repeats the summary instruction before its chunk
CallPromptWithInstruction(c) == SummaryInstruction \o c

\* chunked_generate: the prompt of one generate_content call is the chunk
CallPrompt(c) == c

\* variant: the responses are joined last chunk first
RECURSIVE Reverse(_)
Reverse(ss) == IF ss = <<>> THEN <<>> ELSE Append(Reverse(Tail(ss)), Head(ss))
JoinResultsReversed(rs) == JoinWith(<<"\n">>, Reverse(rs))

\* chunked_generate: "\n".join(results)
JoinResults(rs) == JoinWith(<<"\n">>, rs)

\* variant: the summary stage is skipped
AfterTranscriptSkipSummary(t) == IF Strip(t) # <<>> THEN "BuildPdf" ELSE "Done"

\* variant: line 141 does not look at the transcript
AfterTranscriptUnguarded(t) == "Summary"

\* line 141: the branch taken after the transcription block
AfterTranscript(t) == IF Strip(t) # <<>> THEN "Summary" ELSE "Done"

\* variant: the except clause lacks st.stop() and the script goes on
AfterTranscriptionErrorNoStop == "Transcribed"

\* variant: the except clause starts the transcription block again
AfterTranscriptionErrorRetry == "LoadModel"

\* line 139: st.stop() ends the run
AfterTranscriptionError == "Stopped"

\* variant: the temp file always has the same name
FixedTmpName(files) == {1}

\* the name NamedTemporaryFile gives the new file is one not in use; names
\* are interchangeable, so the smallest unused one stands for any of them
TmpNames == 1..MaxRuns
NewTmpNames(files) ==
    {n \in TmpNames \ files : \A m \in TmpNames \ files : n <= m}

\* the with block leaves the file in place (delete=False)
AfterWithBlock(files, name) == files \cup {name}

\* line 200: the non-blank lines of questions_text
NonBlank(q) == Strip(q) # <<>>
QuestionsList(text) == SelectSeq(SplitOn("\n", text, <<>>), NonBlank)

\* lines 59-70 and 161: the title colour follows the theme
TitleColor(th) == IF th = "Dark" THEN "0x00ffff" ELSE "0x0077ff"

\* lines 178-201: the story handed to doc.build
Story(th, t, s, q) ==
    [title_color |-> TitleColor(th),
     transcript  |-> Wrap(t, LineWidth),
     summary     |-> Wrap(s, LineWidth),
     questions   |-> QuestionsList(q)]

Stages == {"run", "load", "tmp", "transcribe", "summary", "questions",
           "build", "offer"}
Zero == [st \in Stages |-> 0]
Bump(r, st) == [r EXCEPT ![st] = @ + 1]

EmptyUi ==
    [audio |-> FALSE, transcript_area |-> None, summary_area |-> None,
     questions_area |-> None, errors |-> <<>>, exception |-> FALSE,
     download_button |-> FALSE, success |-> FALSE, rejected |-> None]

(***************************************************************************)
(* Initial state: the page is loaded, nothing is uploaded.                 *)
(***************************************************************************)
Init ==
    /\ uploaded_file = None
    /\ theme = "Dark"
    /\ pressed = FALSE
    /\ pc = "Idle"
    /\ transcript = None
    /\ summary_text = None
    /\ questions_text = None
    /\ tmp_path = None
    /\ tmp_files = {}
    /\ prompt = <<>>
    /\ chunks = <<>>
    /\ results = <<>>
    /\ log = <<>>
    /\ ui = EmptyUi
    /\ pdf = None
    /\ ran = Zero
    /\ total = Zero
    /\ runs = 0

(***************************************************************************)
(* Page interactions.  Each one makes the framework execute the script     *)
(* again from the top, in a fresh namespace, whatever the previous run was *)
(* doing; lines 57-126 run at once.                                        *)
(***************************************************************************)
StartRun(file, th, press, sameUpload) ==
    /\ runs < MaxRuns
    /\ runs' = runs + 1
    /\ uploaded_file' = file
    /\ theme' = th
    /\ pressed' = press
    /\ pc' = IF file # None THEN "LoadModel" ELSE "Idle"
    /\ transcript' = None
    /\ summary_text' = None
    /\ questions_text' = None
    /\ tmp_path' = None
    /\ prompt' = <<>>
    /\ chunks' = <<>>
    /\ results' = <<>>
    /\ log' = <<>>
    /\ ui' = [EmptyUi EXCEPT !.audio = (file # None)]
    /\ pdf' = None
    /\ ran' = IF file # None THEN Bump(Zero, "run") ELSE Zero
    /\ total' = IF file = None THEN Zero
                ELSE IF sameUpload THEN Bump(total, "run")
                ELSE Bump(Zero, "run")
    /\ UNCHANGED tmp_files

\* the uploader takes a file of an accepted type
UploadAccepted(ext) ==
    /\ ext \in uploader_type
    /\ StartRun(Some(ext), theme, FALSE, FALSE)

\* the empty uploader refuses any other file and the script does not run
UploadRejected(ext) ==
    /\ ext \notin uploader_type
    /\ uploaded_file = None
    /\ ui.rejected = None
    /\ ui' = [ui EXCEPT !.rejected = Some(ext)]
    /\ UNCHANGED <<uploaded_file, theme, pressed, pc, transcript, summary_text,
                   questions_text, tmp_path, tmp_files, prompt, chunks,
                   results, log, pdf, ran, total, runs>>

ClearUpload ==
    /\ uploaded_file # None
    /\ StartRun(None, theme, FALSE, FALSE)

ChangeTheme ==
    \E th \in {"Dark", "Light"} \ {theme} :
        StartRun(uploaded_file, th, FALSE, TRUE)

PressDownload ==
    /\ ui.download_button
    /\ StartRun(uploaded_file, theme, TRUE, TRUE)

(***************************************************************************)
(* The steps of one run of the script.                                     *)
(***************************************************************************)
widgets == <<uploaded_file, theme, pressed, runs>>

Count(st) ==
    /\ ran' = Bump(ran, st)
    /\ total' = Bump(total, st)

\* lines 137-139: the except clause of the transcription block
TranscriptionFailed(e) ==
    /\ ui' = [ui EXCEPT !.errors = Append(@, TranscriptionErrorText(e))]
    /\ pc' = AfterTranscriptionError

\* line 130: whisper.load_model("tiny")
LoadModel ==
    /\ pc = "LoadModel"
    /\ Count("load")
    /\ \/ pc' = "WriteTemp" /\ UNCHANGED ui
       \/ \E e \in TranscriptionExceptions : TranscriptionFailed(e)
    /\ UNCHANGED <<widgets, transcript, summary_text, questions_text, tmp_path,
                   tmp_files, prompt, chunks, results, log, pdf>>

\* lines 131-133: the temp file is created, written and left in place
WriteTemp ==
    /\ pc = "WriteTemp"
    /\ Count("tmp")
    /\ \E name \in NewTmpNames(tmp_files) :
          /\ tmp_files' = AfterWithBlock(tmp_files, name)
          /\ \/ /\ tmp_path' = Some(name)
                /\ pc' = "Transcribe"
                /\ UNCHANGED ui
             \/ /\ \E e \in TranscriptionExceptions : TranscriptionFailed(e)
                /\ UNCHANGED tmp_path
    /\ UNCHANGED <<widgets, transcript, summary_text, questions_text, prompt,
                   chunks, results, log, pdf>>

\* lines 134-136: transcribe(tmp_path), result["text"], the transcript area
Transcribe ==
    /\ pc = "Transcribe"
    /\ Count("transcribe")
    /\ \/ \E t \in Transcripts :
             /\ transcript' = Some(t)
             /\ ui' = [ui EXCEPT !.transcript_area = Some(t)]
             /\ pc' = "Transcribed"
       \/ /\ \E e \in TranscriptionExceptions : TranscriptionFailed(e)
          /\ UNCHANGED transcript
    /\ UNCHANGED <<widgets, summary_text, questions_text, tmp_path, tmp_files,
                   prompt, chunks, results, log, pdf>>

\* lines 141-143 and 32, 22-24: the guard, then generate_summary is entered
CallSummary ==
    /\ pc = "Transcribed"
    /\ pc' = AfterTranscript(transcript[1])
    /\ IF pc' = "Summary"
       THEN /\ Count("summary")
            /\ prompt' = SummaryPrompt(transcript[1])
            /\ chunks' = Wrap(prompt', chunk_size)
            /\ results' = <<>>
            /\ log' = <<>>
       ELSE UNCHANGED <<ran, total, prompt, chunks, results, log>>
    /\ UNCHANGED <<widgets, transcript, summary_text, questions_text, tmp_path,
                   tmp_files, ui, pdf>>

\* lines 25-27: one generate_content call that returns
ModelCall ==
    /\ chunks # <<>>
    /\ \E r \in Responses :
          /\ results' = Append(results, r)
          /\ log' = Append(log, <<CallPrompt(Head(chunks)), Some(r)>>)
    /\ chunks' = Tail(chunks)
    /\ UNCHANGED <<widgets, pc, transcript, summary_text, questions_text,
                   tmp_path, tmp_files, prompt, ui, pdf, ran, total>>

\* lines 24-27: genai.GenerativeModel raises before the first call, or one
\* generate_content call (or reading its text) raises
ModelRaise ==
    \/ /\ log = <<>>
       /\ UNCHANGED log
    \/ /\ chunks # <<>>
       /\ log' = Append(log, <<CallPrompt(Head(chunks)), None>>)

SummaryCall == pc = "Summary" /\ ModelCall

\* lines 28, 33 and 144: the joined responses are returned and shown
SummaryReturn ==
    /\ pc = "Summary"
    /\ chunks = <<>>
    /\ summary_text' = Some(JoinResults(results))
    /\ ui' = [ui EXCEPT !.summary_area = summary_text']
    /\ pc' = "Summarized"
    /\ UNCHANGED <<widgets, transcript, questions_text, tmp_path, tmp_files,
                   prompt, chunks, results, log, pdf, ran, total>>

\* lines 34-35 and 144: the error string is returned and shown
SummaryRaise ==
    /\ pc = "Summary"
    /\ ModelRaise
    /\ \E e \in ApiExceptions : summary_text' = Some(SummaryErrorText(e))
    /\ ui' = [ui EXCEPT !.summary_area = summary_text']
    /\ pc' = "Summarized"
    /\ UNCHANGED <<widgets, transcript, questions_text, tmp_path, tmp_files,
                   prompt, chunks, results, pdf, ran, total>>

\* lines 146-147 and 39, 22-24: generate_questions is entered
CallQuestions ==
    /\ pc = "Summarized"
    /\ Count("questions")
    /\ prompt' = QuestionsPrompt(transcript[1])
    /\ chunks' = Wrap(prompt', chunk_size)
    /\ results' = <<>>
    /\ log' = <<>>
    /\ pc' = "Questions"
    /\ UNCHANGED <<widgets, transcript, summary_text, questions_text, tmp_path,
                   tmp_files, ui, pdf>>

QuestionsCall == pc = "Questions" /\ ModelCall

\* lines 28, 40 and 148
QuestionsReturn ==
    /\ pc = "Questions"
    /\ chunks = <<>>
    /\ questions_text' = Some(JoinResults(results))
    /\ ui' = [ui EXCEPT !.questions_area = questions_text']
    /\ pc' = "BuildPdf"
    /\ UNCHANGED <<widgets, transcript, summary_text, tmp_path, tmp_files,
                   prompt, chunks, results, log, pdf, ran, total>>

\* lines 41-42 and 148
QuestionsRaise ==
    /\ pc = "Questions"
    /\ ModelRaise
    /\ \E e \in ApiExceptions : questions_text' = Some(QuestionsErrorText(e))
    /\ ui' = [ui EXCEPT !.questions_area = questions_text']
    /\ pc' = "BuildPdf"
    /\ UNCHANGED <<widgets, transcript, summary_text, tmp_path, tmp_files,
                   prompt, chunks, results, pdf, ran, total>>

\* lines 153-204: the story is laid out and doc.build returns
BuildPdf ==
    /\ pc = "BuildPdf"
    /\ Count("build")
    /\ pdf' = Some(Story(theme, transcript[1], summary_text[1], questions_text[1]))
    /\ pc' = "Rendered"
    /\ UNCHANGED <<widgets, transcript, summary_text, questions_text, tmp_path,
                   tmp_files, prompt, chunks, results, log, ui>>

\* line 203: doc.build raises; nothing catches it and the run ends
BuildRaise ==
    /\ pc = "BuildPdf"
    /\ Count("build")
    /\ ui' = [ui EXCEPT !.exception = TRUE]
    /\ pc' = "Crashed"
    /\ UNCHANGED <<widgets, transcript, summary_text, questions_text, tmp_path,
                   tmp_files, prompt, chunks, results, log, pdf>>

\* lines 207-210: the download button; it reads True in the run its press started
OfferDownload ==
    /\ pc = "Rendered"
    /\ Count("offer")
    /\ ui' = [ui EXCEPT !.download_button = TRUE,
                        !.success = pressed]
    /\ pc' = "Done"
    /\ UNCHANGED <<widgets, transcript, summary_text, questions_text, tmp_path,
                   tmp_files, prompt, chunks, results, log, pdf>>

Next ==
    \/ \E ext \in Extensions : UploadAccepted(ext)
    \/ \E ext \in Extensions : UploadRejected(ext)
    \/ ClearUpload
    \/ ChangeTheme
    \/ PressDownload
    \/ LoadModel
    \/ WriteTemp
    \/ Transcribe
    \/ CallSummary
    \/ SummaryCall
    \/ SummaryReturn
    \/ SummaryRaise
    \/ CallQuestions
    \/ QuestionsCall
    \/ QuestionsReturn
    \/ QuestionsRaise
    \/ BuildPdf
    \/ BuildRaise
    \/ OfferDownload

Spec == Init /\ [][Next]_vars

(***************************************************************************)
(* Vocabulary of the properties.                                           *)
(***************************************************************************)
RECURSIVE Chars(_)
Chars(s) == IF s = <<>> THEN {} ELSE {Head(s)} \cup Chars(Tail(s))

NotSpace(c) == ~IsSpace(c)
NonSpace(s) == SelectSeq(s, NotSpace)

HasPrefix(s, p) == Len(s) >= Len(p) /\ SubSeq(s, 1, Len(p)) = p

CeilDiv(a, b) == (a + b - 1) \div b

\* the pipeline stages the properties count
PipelineStages == {"tmp", "transcribe", "summary", "questions", "build"}

\* the adapter call that ran last sent all its chunks and returned
Returned == pc \in {"Summarized", "BuildPdf"} /\ chunks = <<>>

\* the adapter call that ran last ended in its except clause
Raised == pc \in {"Summarized", "BuildPdf"} /\ chunks # <<>>

\* what that adapter call returned
Output == IF pc = "Summarized" THEN summary_text[1] ELSE questions_text[1]

\* the last model call of the adapter call in progress raised
LastCallRaised == log # <<>> /\ log[Len(log)][2] = None

\* summary_text / questions_text hold an error string
SummaryFailed ==
    summary_text # None /\ HasPrefix(summary_text[1], SummaryErrorMarker)
QuestionsFailed ==
    questions_text # None /\ HasPrefix(questions_text[1], QuestionsErrorMarker)

BlankTranscript == transcript # None /\ IsBlank(transcript[1])

\* a step of the current run that executes lines 131-133
RunPassesTempFile == runs' = runs /\ ran'["tmp"] = ran["tmp"] + 1

\* the instruction character of the adapter call the log belongs to
InstructionChars == {"S", "Q"}

(***************************************************************************)
(* C1: doc.build starts only after the transcript and the summary text of  *)
(* the same run exist, and the download button is offered only after       *)
(* doc.build has returned.                                                 *)
(***************************************************************************)
C1_RenderAfterTranscriptAndSummary ==
    /\ (pc \in {"BuildPdf", "Rendered"} \/ ran["build"] > 0 \/ pdf # None
            \/ ui.download_button)
           => (transcript # None /\ summary_text # None)
    /\ (ui.download_button \/ ran["offer"] > 0) => pdf # None
    /\ pdf # None => ran["build"] = 1

C1_Witness ==
    /\ pc = "Done"
    /\ ui.download_button
    /\ pdf # None
    /\ transcript # None
    /\ summary_text # None

(***************************************************************************)
(* C2: a failure of any adapter (transcription, summarization, question    *)
(* generation) halts the request: after it no question generation, no PDF  *)
(* build and no download offer happen in that run.                         *)
(***************************************************************************)
C2_AdapterFailureHalts ==
    /\ ui.errors # <<>> => pc = "Stopped"
    /\ SummaryFailed
           => ran["questions"] = 0 /\ ran["build"] = 0 /\ ran["offer"] = 0
    /\ QuestionsFailed => ran["build"] = 0 /\ ran["offer"] = 0

(***************************************************************************)
(* C3: when the generative API raises during summarization,                *)
(* generate_summary returns the error string (marker, then the message)    *)
(* instead of raising; the string is shown in the summary area, the run    *)
(* goes on to the question and PDF stages, the PDF's summary section is    *)
(* that string wrapped into lines, and the download is offered.            *)
(***************************************************************************)
C3_SummaryErrorFlowsIntoPdf ==
    /\ (pc = "Summarized" /\ Raised)
           => /\ SummaryFailed
              /\ \E e \in ApiExceptions :
                     summary_text[1] = SummaryErrorMarker \o e
    /\ SummaryFailed
           => /\ ui.summary_area = summary_text
              /\ ui.errors = <<>>
              /\ pc \in {"Summarized", "Questions", "BuildPdf", "Rendered",
                         "Done", "Crashed"}
              /\ pdf # None
                     => /\ pdf[1].summary = Wrap(summary_text[1], LineWidth)
                        /\ pdf[1].summary # <<>>
              /\ pc = "Done" => pdf # None /\ ui.download_button

C3_Witness ==
    /\ SummaryFailed
    /\ pc = "Done"
    /\ ui.download_button
    /\ pdf # None
    /\ pdf[1].summary = Wrap(summary_text[1], LineWidth)

(***************************************************************************)
(* C4, as stated: when chunked_generate returns, the number of model calls *)
(* is ceil(L / chunk_size) for a text of length L, and the output is the   *)
(* responses joined with newlines in chunk order.                          *)
(***************************************************************************)
C4_CallsEqualCeilOfLength ==
    Returned
        => /\ Len(log) = CeilDiv(Len(prompt), chunk_size)
           /\ Output = JoinWith(<<"\n">>, [i \in 1..Len(log) |-> log[i][2][1]])

(***************************************************************************)
(* C4, amended: when chunked_generate returns, the model was called once   *)
(* per chunk of textwrap.wrap(text, chunk_size), in order; every chunk is  *)
(* non-empty and at most chunk_size long, so there are at least            *)
(* ceil(N / chunk_size) calls for the N non-whitespace characters of the   *)
(* text; the output is the responses joined with newlines in chunk order.  *)
(***************************************************************************)
C4_CallsEqualWrappedChunks ==
    Returned
        => LET cs == Wrap(prompt, chunk_size)
           IN  /\ Len(log) = Len(cs)
               /\ \A i \in 1..Len(cs) :
                      /\ log[i][1] = cs[i]
                      /\ Len(cs[i]) \in 1..chunk_size
               /\ Len(log) >= CeilDiv(Len(NonSpace(prompt)), chunk_size)
               /\ Output = JoinWith(<<"\n">>,
                                    [i \in 1..Len(log) |-> log[i][2][1]])

C4_Witness ==
    /\ Returned
    /\ Len(log) >= 2
    /\ Len(log) # CeilDiv(Len(prompt), chunk_size)
    /\ log[1][2] # log[2][2]

(***************************************************************************)
(* C5: an exception anywhere in the transcription block (model load,       *)
(* temp-file write, transcribe call, missing text field) is caught, shows  *)
(* exactly one error message and stops the run: no summarization, no       *)
(* question generation, no PDF build, no download offer, and no step of    *)
(* the block runs a second time.                                           *)
(***************************************************************************)
C5_TranscriptionErrorStops ==
    /\ ui.errors # <<>>
           => /\ pc = "Stopped"
              /\ Len(ui.errors) = 1
              /\ HasPrefix(ui.errors[1], TranscriptionErrorMarker)
              /\ ~ui.exception
              /\ transcript = None
              /\ summary_text = None /\ questions_text = None /\ pdf = None
              /\ log = <<>>
              /\ \A st \in {"summary", "questions", "build", "offer"} :
                     ran[st] = 0
              /\ \A st \in {"load", "tmp", "transcribe"} : ran[st] <= 1
              /\ ~ui.download_button
    /\ pc = "Stopped" => ui.errors # <<>>

C5_Witness ==
    /\ pc = "Stopped"
    /\ Len(ui.errors) = 1
    /\ ran["transcribe"] = 1
    /\ tmp_path # None

(***************************************************************************)
(* C6, as stated: for one uploaded file the temp-file write, the           *)
(* transcription, the two adapter calls and the PDF build each execute     *)
(* at most once, however many page interactions follow.                    *)
(***************************************************************************)
C6_OncePerUpload == \A st \in PipelineStages : total[st] <= 1

(***************************************************************************)
(* C6, amended: the pipeline is invoked once per run of the script, and    *)
(* every page interaction starts a new run.  In one run each stage         *)
(* executes at most once, and exactly once in a run that reaches the       *)
(* download button; a run started by pressing the download button of the   *)
(* same upload executes every stage again.                                 *)
(***************************************************************************)
C6_OncePerRun ==
    /\ \A st \in Stages : ran[st] <= 1 /\ ran[st] <= total[st]
    /\ \A st \in Stages : total[st] <= total["run"]
    /\ uploaded_file # None => ran["run"] = 1 /\ pc # "Idle"
    /\ (pc = "Done" /\ ui.download_button)
           => /\ \A st \in Stages : ran[st] = 1
              /\ pressed => \A st \in Stages : total[st] >= 2

C6_Witness ==
    /\ pc = "Done"
    /\ ui.download_button
    /\ pressed
    /\ \A st \in PipelineStages : ran[st] = 1 /\ total[st] = 2

(***************************************************************************)
(* C7: a file with extension mp3, wav or m4a is accepted, and the          *)
(* transcribe call of its run gets the path of the temp file written in    *)
(* that run; a file with any other extension is refused and no stage runs. *)
(***************************************************************************)
C7_UploadIntake ==
    /\ \A ext \in {"mp3", "wav", "m4a"} :
           runs < MaxRuns => ENABLED UploadAccepted(ext)
    /\ uploaded_file # None => uploaded_file[1] \in {"mp3", "wav", "m4a"}
    /\ (pc = "Transcribe" \/ ran["transcribe"] > 0)
           => /\ tmp_path # None
              /\ tmp_path[1] \in tmp_files
              /\ ran["tmp"] = 1
    /\ ui.rejected # None
           => /\ ui.rejected[1] \notin {"mp3", "wav", "m4a"}
              /\ uploaded_file = None
              /\ pc = "Idle"
              /\ ran = Zero
              /\ tmp_path = None /\ transcript = None
              /\ summary_text = None /\ pdf = None

C7_Witness ==
    /\ uploaded_file = Some("m4a")
    /\ ran["transcribe"] = 1
    /\ tmp_path # None
    /\ tmp_path[1] \in tmp_files

(***************************************************************************)
(* C8: every model call gets exactly one chunk as its whole prompt.  The   *)
(* instruction is in the first call only: calls 2..n carry transcript      *)
(* text and no instruction.  The calls made so far and the chunks still    *)
(* to send hold, in order, every non-whitespace character of the prompt    *)
(* (instruction, then transcript) exactly once.                            *)
(***************************************************************************)
C8_InstructionOnlyInFirstCall ==
    (pc \in {"Summary", "Summarized", "Questions", "BuildPdf"})
        => LET cs == Wrap(prompt, chunk_size)
               sent == [i \in 1..Len(log) |-> log[i][1]]
           IN  /\ Len(log) <= Len(cs)
               /\ \A i \in 1..Len(log) : sent[i] = cs[i]
               /\ Len(log) >= 1 => Head(sent[1]) \in InstructionChars
               /\ \A i \in 2..Len(log) :
                      /\ Chars(sent[i]) \cap InstructionChars = {}
                      /\ Chars(sent[i]) \subseteq Chars(Munge(transcript[1]))
               /\ ~LastCallRaised
                      => NonSpace(Concat(sent) \o Concat(chunks))
                             = NonSpace(prompt)

C8_Witness ==
    /\ Returned
    /\ Len(log) = 3
    /\ Chars(log[2][1]) \cap InstructionChars = {}
    /\ NonSpace(Concat([i \in 1..Len(log) |-> log[i][1]])) = NonSpace(prompt)

(***************************************************************************)
(* C9, as stated: a run whose transcript is empty or whitespace-only       *)
(* still summarizes and renders, and ends with a downloadable PDF.         *)
(***************************************************************************)
C9_BlankTranscriptStillRenders ==
    (BlankTranscript /\ pc = "Done")
        => ran["summary"] = 1 /\ pdf # None /\ ui.download_button

(***************************************************************************)
(* C9, amended: the renderer validates nothing, but line 141 guards it.    *)
(* A run whose transcript is empty or whitespace-only skips summarization, *)
(* question generation and rendering and offers no download.  For any      *)
(* other transcript a run that reaches its end has built and offered the   *)
(* PDF whatever the summary is, and a whitespace-only summary gives an     *)
(* empty summary section.                                                  *)
(***************************************************************************)
C9_BlankTranscriptSkipsRendering ==
    /\ BlankTranscript
           => /\ pc \in {"Transcribed", "Done"}
              /\ \A st \in {"summary", "questions", "build", "offer"} :
                     ran[st] = 0
              /\ summary_text = None /\ pdf = None
              /\ ~ui.download_button
    /\ (transcript # None /\ ~BlankTranscript /\ pc = "Done")
           => pdf # None /\ ui.download_button
    /\ pdf # None
           => /\ pdf[1].transcript # <<>>
              /\ IsBlank(summary_text[1]) => pdf[1].summary = <<>>

C9_Witness ==
    /\ BlankTranscript
    /\ transcript[1] # <<>>
    /\ pc = "Done"
    /\ pdf = None

(***************************************************************************)
(* C10: a run creates at most one temp file, under a name no file has,     *)
(* exactly when it passes lines 131-133; no step removes a file, so the    *)
(* set of temp files only grows, and the path of a run is a file that no   *)
(* earlier run wrote.                                                      *)
(***************************************************************************)
C10_TempFilesOnlyGrow ==
    /\ [](/\ ran["tmp"] <= 1
          /\ tmp_path # None => tmp_path[1] \in tmp_files
          /\ Cardinality(tmp_files) <= runs)
    /\ [][/\ tmp_files \subseteq tmp_files'
          /\ RunPassesTempFile
                 => \E name \in tmp_files' \ tmp_files :
                        /\ tmp_files' = tmp_files \cup {name}
                        /\ tmp_path' \in {None, Some(name)}
          /\ ~RunPassesTempFile
                 => /\ tmp_files' = tmp_files
                    /\ tmp_path' \in {None, tmp_path}]_vars

C10_Witness ==
    /\ Cardinality(tmp_files) = 2
    /\ pc = "Stopped"
    /\ tmp_path = None
    /\ ran["tmp"] = 1

====
